---- MODULE Spec2Model ----
(***************************************************************************)
(* Model of src/src/fast_solver.c: the Erdos-Straus solver                 *)
(* solve_erdos_straus, its helpers set_sol, verify128 and                  *)
(* get_divisors_p2x2, and the batch driver solve_batch.                    *)
(*                                                                         *)
(* Machine integers keep their wrap-around: a u64 is a value modulo        *)
(* 2^WordBits and a u128 a value modulo 2^(2*WordBits).  The word width,   *)
(* the search window and the divisor buffer are scaled down together so    *)
(* that the model checker can enumerate every input word; the code is      *)
(* otherwise followed statement by statement.                              *)
(***************************************************************************)
EXTENDS Integers, Sequences, FiniteSets, TLC

(* ------------------------------ bounds -------------------------------- *)

\* width of the type u64 (64 in the source), the u128 being twice as wide
WordBits == 8
\* the search window, x_max - x_min (50000 in the source)
Window == 3
\* capacity of the divisor buffer (16384 in the source)
MAX_DIVS == 12
\* longest input array handed to solve_batch
MaxCount == 2

(* ------------------------- program constants -------------------------- *)

\* Factor factors[64]; Factor all_factors[64];
FACTOR_CAP == 64

\* the four moduli of verify128
mods == <<1000000007, 1000000009, 998244353, 999999937>>

(* ------------------------- machine arithmetic ------------------------- *)

U64 == 2 ^ WordBits
U128 == 2 ^ (2 * WordBits)

U64Values == 0 .. (U64 - 1)

\* (a * b) % m by doubling, so that no intermediate value exceeds 2 * m
RECURSIVE MulMod(_, _, _)
MulMod(a, b, m) ==
    IF b = 0 THEN 0
    ELSE LET h == MulMod(a, b \div 2, m)
             d == (2 * h) % m
         IN  IF b % 2 = 1 THEN (d + (a % m)) % m ELSE d

\* u64 and u128 operations, with their wrap-around
Mul64(a, b) == MulMod(a, b, U64)
Add64(a, b) == (a + b) % U64
Sub64(a, b) == (a + U64 - b) % U64
Mul128(a, b) == MulMod(a, b, U128)
Add128(a, b) == (a + b) % U128
Sub128(a, b) == (a + U128 - (b % U128)) % U128

(* ------------------------------ set_sol ------------------------------- *)

ZeroSol ==
    [a_lo |-> 0, a_hi |-> 0, b_lo |-> 0, b_hi |-> 0,
     c_lo |-> 0, c_hi |-> 0, found |-> 0]

\* the (hi, lo) words of a u128
Lo(v) == v % U64
Hi(v) == v \div U64

\* one conditional swap of set_sol: the pair <<p, q>> with p <= q
SwapGt(p, q) == IF p > q THEN <<q, p>> ELSE <<p, q>>

set_sol(a, b, c) ==
    LET s1 == SwapGt(a, b)
        s2 == SwapGt(s1[2], c)
        s3 == SwapGt(s1[1], s2[1])
        a3 == s3[1]
        b3 == s3[2]
        c3 == s2[2]
    IN  [a_lo |-> Lo(a3), a_hi |-> Hi(a3),
         b_lo |-> Lo(b3), b_hi |-> Hi(b3),
         c_lo |-> Lo(c3), c_hi |-> Hi(c3), found |-> 1]

(* ----------------------------- verify128 ------------------------------ *)

\* one round of verify128's loop: the identity modulo mod
VerifyMod(n, a, b, c, mod) ==
    LET an == a % mod
        bn == b % mod
        cn == c % mod
        nn == n % mod
        lhs == MulMod(MulMod(MulMod(4, an, mod), bn, mod), cn, mod)
        bc == MulMod(bn, cn, mod)
        ac == MulMod(an, cn, mod)
        ab == MulMod(an, bn, mod)
        sum == (((bc + ac) % mod) + ab) % mod
        rhs == MulMod(nn, sum, mod)
    IN  lhs = rhs

verify128(n, a, b, c) ==
    \A m \in 1 .. Len(mods) : VerifyMod(n, a, b, c, mods[m])

(* ------------------------- get_divisors_p2x2 --------------------------- *)

\* while (temp % d == 0) { exp++; temp /= d; }
RECURSIVE StripPower(_, _, _)
StripPower(temp, d, exp) ==
    IF temp % d = 0 THEN StripPower(temp \div d, d, exp + 1)
    ELSE [temp |-> temp, exp |-> exp]

\* for (d = 2; d * d <= temp && nfactors < 63; d++): trial division of x,
\* factors[nfactors] being the next entry written
RECURSIVE FactorLoop(_, _, _)
FactorLoop(d, temp, factors) ==
    IF Mul64(d, d) <= temp /\ Len(factors) < FACTOR_CAP - 1
    THEN IF temp % d = 0
         THEN LET r == StripPower(temp, d, 0)
              IN  FactorLoop(Add64(d, 1), r.temp,
                             Append(factors, [prime |-> d, exp |-> r.exp]))
         ELSE FactorLoop(Add64(d, 1), temp, factors)
    ELSE [temp |-> temp, factors |-> factors]

\* the factor list of x: the loop, then the residual prime
Factorize(x) ==
    LET r == FactorLoop(2, x, << >>)
    IN  IF r.temp > 1 /\ Len(r.factors) < FACTOR_CAP - 1
        THEN Append(r.factors, [prime |-> r.temp, exp |-> 1])
        ELSE r.factors

\* all_factors: every exponent doubled, p's raised by two, p appended with
\* exponent 2 when it is none of x's primes
AllFactors(factors, p) ==
    LET doubled == [k \in 1 .. Len(factors) |->
                      [prime |-> factors[k].prime,
                       exp |-> IF factors[k].prime = p
                               THEN 2 * factors[k].exp + 2
                               ELSE 2 * factors[k].exp]]
        p_found == \E k \in 1 .. Len(factors) : factors[k].prime = p
    IN  IF p_found THEN doubled
        ELSE Append(doubled, [prime |-> p, exp |-> 2])

DivIndex == 0 .. (MAX_DIVS - 1)

\* a read of divs[j]; an index outside the buffer reads some other memory
BufRead(buf, j) == IF j \in DOMAIN buf THEN buf[j] ELSE 0

\* divs[count++] = v: st is the buffer with the running count, the set of
\* indexes written so far and whether a write went outside the buffer
BufWrite(st, v) ==
    [count |-> st.count + 1,
     buf |-> IF st.count \in DOMAIN st.buf
             THEN [st.buf EXCEPT ![st.count] = v] ELSE st.buf,
     written |-> st.written \cup {st.count},
     oob |-> st.oob \/ st.count \notin DOMAIN st.buf]

\* the innermost loop without its test of the capacity
RECURSIVE LoopJNoCap(_, _, _, _)
LoopJNoCap(j, prev_count, pe, st) ==
    IF j < prev_count
    THEN LoopJNoCap(j + 1, prev_count, pe,
                    BufWrite(st, Mul64(BufRead(st.buf, j), pe)))
    ELSE st

\* for (j = 0; j < prev_count && count < MAX_DIVS; j++)
\*     divs[count++] = divs[j] * pe;
RECURSIVE LoopJ(_, _, _, _)
LoopJ(j, prev_count, pe, st) ==
    IF j < prev_count /\ st.count < MAX_DIVS
    THEN LoopJ(j + 1, prev_count, pe,
               BufWrite(st, Mul64(BufRead(st.buf, j), pe)))
    ELSE st

\* for (e = 0; e < exp && count < MAX_DIVS; e++) { pe *= prime; ... }
RECURSIVE LoopE(_, _, _, _, _)
LoopE(e, f, pe, prev_count, st) ==
    IF e < f.exp /\ st.count < MAX_DIVS
    THEN LET pe2 == Mul64(pe, f.prime)
         IN  LoopE(e + 1, f, pe2, prev_count, LoopJ(0, prev_count, pe2, st))
    ELSE st

\* for (i = 0; i < nall && count < MAX_DIVS; i++)
RECURSIVE LoopI(_, _, _)
LoopI(i, all, st) ==
    IF i < Len(all) /\ st.count < MAX_DIVS
    THEN LoopI(i + 1, all, LoopE(0, all[i + 1], 1, st.count, st))
    ELSE st

\* get_divisors_p2x2(p, x, divs): the count returned and the buffer as the
\* call leaves it, with the sizes the two factor arrays reached
get_divisors_p2x2(p, x, divs) ==
    LET factors == Factorize(x)
        all == AllFactors(factors, p)
        st0 == [count |-> 1, buf |-> [divs EXCEPT ![0] = 1],
                written |-> {0}, oob |-> FALSE]
        st == LoopI(0, all, st0)
    IN  [count |-> st.count, buf |-> st.buf, written |-> st.written,
         oob |-> st.oob, nfactors |-> Len(factors), nall |-> Len(all)]

(* ------------------------- solve_erdos_straus -------------------------- *)

\* the guard with the bound off by one: n = 1 is taken for a valid input
DegenerateOffByOne(n) == n < 1

\* if (n <= 1) return sol;
Degenerate(n) == n <= 1

\* the cases solved without a search; kind "search" hands n to the loop
ClosedForm(n) ==
    IF Degenerate(n) THEN [kind |-> "ret", sol |-> ZeroSol]
    ELSE IF n = 2 THEN [kind |-> "ret", sol |-> set_sol(1, 2, 2)]
    ELSE IF n = 3 THEN [kind |-> "ret", sol |-> set_sol(1, 4, 12)]
    ELSE IF n = 4 THEN [kind |-> "ret", sol |-> set_sol(2, 4, 4)]
    ELSE IF n = 5 THEN [kind |-> "ret", sol |-> set_sol(2, 4, 20)]
    ELSE IF n % 2 = 0
         THEN LET m == n \div 2
              IN  [kind |-> "ret",
                   sol |-> set_sol(m, Mul128(2, m), Mul128(2, m))]
    ELSE IF n % 4 = 3
         THEN LET q == Add64(n, 1) \div 4
                  m == Mul128(n, q)
              IN  [kind |-> "ret",
                   sol |-> set_sol(q, Mul128(2, m), Mul128(2, m))]
    ELSE [kind |-> "search", sol |-> ZeroSol]

\* u64 x_min = (n + 3) / 4;
XMin(n) == Add64(n, 3) \div 4
\* u64 x_max = x_min + 50000;
XMax(n) == Add64(XMin(n), Window)

\* u128 A = (u128)4 * x - n;
AOf(n, x) == Sub128(Mul128(4, x), n)
\* u128 nx = (u128)n * x;  u128 D = nx * nx;
NxOf(n, x) == Mul128(n, x)
DOf(n, x) == Mul128(NxOf(n, x), NxOf(n, x))
\* u64 target_mod = (u64)((A64 - (u64)(nx % A)) % A64);
TargetMod(n, x) ==
    LET A64 == AOf(n, x) % U64
    IN  Sub64(A64, (NxOf(n, x) % AOf(n, x)) % U64) % A64

\* the body of the loop over the divisors for one entry d1 of the buffer:
\* "skip" for a continue, "trap" for a division by zero, "accept" with the
\* triple handed to set_sol
Candidate(n, x, d1) ==
    LET A == AOf(n, x)
        A64 == A % U64
        nx == NxOf(n, x)
        D == DOf(n, x)
        d2 == D \div d1
        y0 == Add128(d1, nx) \div A
        z0 == Add128(d2, nx) \div A
        y == IF z0 < y0 THEN z0 ELSE y0
        z == IF z0 < y0 THEN y0 ELSE z0
    IN  IF d1 > nx THEN [kind |-> "skip"]
        ELSE IF d1 % A64 # TargetMod(n, x) THEN [kind |-> "skip"]
        ELSE IF d1 = 0 THEN [kind |-> "trap"]
        ELSE IF Add128(d2, nx) % A # 0 THEN [kind |-> "skip"]
        ELSE IF y0 < x THEN [kind |-> "skip"]
        ELSE IF y < x THEN [kind |-> "skip"]
        ELSE IF verify128(n, x, y, z)
             THEN [kind |-> "accept", sol |-> set_sol(x, y, z)]
        ELSE [kind |-> "skip"]

(* ------------------------- the scratch buffer -------------------------- *)

\* what one call of solve_erdos_straus did with the heap: blocks acquired
\* and released, whether one is held, whether a block was released or used
\* while not held, whether malloc was called and failed, and the number of
\* iterations of the loop over x
NoCall ==
    [allocs |-> 0, frees |-> 0, held |-> FALSE, fault |-> FALSE,
     failed |-> FALSE, xs |-> 0]

\* u64 *divs = (u64 *)malloc(MAX_DIVS * sizeof(u64)), when it succeeds
MallocOk(c) == [c EXCEPT !.allocs = @ + 1, !.held = TRUE]
\* and when it returns NULL
MallocFail(c) == [c EXCEPT !.failed = TRUE]
\* free(divs)
Free(c) ==
    [c EXCEPT !.frees = @ + 1, !.held = FALSE, !.fault = @ \/ ~c.held]
\* an access to divs[...]
Access(c) == [c EXCEPT !.fault = @ \/ ~c.held]

\* the early return without its free(divs)
ReleaseLeak(c) == c

\* free(divs); return sol;  after set_sol in the loop
ReleaseOnAccept(c) == Free(c)
\* free(divs); return sol;  after the loop
ReleaseOnExhaust(c) == Free(c)

\* the words malloc's block can hold: those of the block last freed, or
\* one word repeated
Garbage == {0, 1, U64 - 1}
MallocContents(old) == {old} \cup {[k \in DivIndex |-> g] : g \in Garbage}

(* ----------------------------- solve_batch ----------------------------- *)

\* an entry of the caller's seven output arrays that was never assigned
Unwritten ==
    [a_lo |-> -1, a_hi |-> -1, b_lo |-> -1, b_hi |-> -1,
     c_lo |-> -1, c_hi |-> -1, found |-> -1]

\* the stores with the low words of a and b written to both arrays
StoreResultLowTwice(o, i, s) ==
    [o EXCEPT ![i + 1] =
        [a_lo |-> s.a_lo, a_hi |-> s.a_lo, b_lo |-> s.b_lo, b_hi |-> s.b_lo,
         c_lo |-> s.c_lo, c_hi |-> s.c_hi, found |-> s.found]]

\* a_lo[i] = s.a_lo; ... found[i] = s.found;  (i counted from 0)
StoreResult(o, i, s) ==
    [o EXCEPT ![i + 1] =
        [a_lo |-> s.a_lo, a_hi |-> s.a_hi, b_lo |-> s.b_lo, b_hi |-> s.b_hi,
         c_lo |-> s.c_lo, c_hi |-> s.c_hi, found |-> s.found]]

\* for (int i = 0; i < ndivs; i++)
DivLoopCond(i, nd) == i < nd

(* ------------------------------- inputs -------------------------------- *)

\* one word of each class of n: degenerate, even, two searched values and
\* the largest word that is 1 modulo 4
Representatives == {1, 6, 9, 13, U64 - 3}

\* the arrays handed to solve_batch: every array of at most one word, and
\* the longer arrays over the representatives
Inputs ==
    {<< >>} \cup {<<v>> : v \in U64Values}
    \cup UNION {[1 .. k -> Representatives] : k \in 2 .. MaxCount}

(* ------------------------------- state --------------------------------- *)

VARIABLES
    primes,   \* solve_batch's input array
    out,      \* the output arrays, one record of seven words per index
    bi,       \* solve_batch's loop index i
    pc,       \* "batch", "xloop", "divloop", "trap" or "done"
    n,        \* solve_erdos_straus's argument
    x,        \* the loop variable of the search
    x_max,    \* the last x of the window
    ndivs,    \* the count get_divisors_p2x2 returned for x
    di,       \* the loop index i over the divisors
    divs,     \* the words of the scratch block
    gd,       \* what get_divisors_p2x2 did in its last call
    call,     \* the heap record of the call in progress
    log       \* the heap record and result of every call that returned

vars == <<primes, out, bi, pc, n, x, x_max, ndivs, di, divs, gd, call, log>>

NoGd == [x |-> 0, count |-> 0, written |-> {}, oob |-> FALSE,
         nfactors |-> 0, nall |-> 0, reads |-> {}]

Init ==
    /\ primes \in Inputs
    /\ out = [k \in 1 .. Len(primes) |-> Unwritten]
    /\ bi = 0
    /\ pc = "batch"
    /\ n = 0 /\ x = 0 /\ x_max = 0 /\ ndivs = 0 /\ di = 0
    /\ divs = [k \in DivIndex |-> 0]
    /\ gd = NoGd
    /\ call = NoCall
    /\ log = << >>

\* return sol;  back in solve_batch: the result is stored and i advances
Return(s, c) ==
    /\ out' = StoreResult(out, bi, s)
    /\ log' = Append(log, [n |-> primes[bi + 1], sol |-> s, heap |-> c])
    /\ bi' = bi + 1
    /\ pc' = "batch"
    /\ n' = 0 /\ x' = 0 /\ x_max' = 0 /\ ndivs' = 0 /\ di' = 0
    /\ gd' = NoGd
    /\ call' = NoCall
    /\ UNCHANGED primes

\* a call that returns before the search
CallClosedForm ==
    /\ pc = "batch" /\ bi < Len(primes)
    /\ ClosedForm(primes[bi + 1]).kind = "ret"
    /\ Return(ClosedForm(primes[bi + 1]).sol, NoCall)
    /\ UNCHANGED divs

\* if (!divs) return sol;
CallAllocFail ==
    /\ pc = "batch" /\ bi < Len(primes)
    /\ ClosedForm(primes[bi + 1]).kind = "search"
    /\ Return(ZeroSol, MallocFail(NoCall))
    /\ UNCHANGED divs

\* the call reaches the loop over x with its block
CallSearch ==
    /\ pc = "batch" /\ bi < Len(primes)
    /\ ClosedForm(primes[bi + 1]).kind = "search"
    /\ divs' \in MallocContents(divs)
    /\ call' = MallocOk(NoCall)
    /\ n' = primes[bi + 1]
    /\ x' = XMin(primes[bi + 1])
    /\ x_max' = XMax(primes[bi + 1])
    /\ pc' = "xloop"
    /\ UNCHANGED <<primes, out, bi, ndivs, di, gd, log>>

\* one x of the window, up to the loop over its divisors
XIter ==
    /\ pc = "xloop" /\ x <= x_max
    /\ IF AOf(n, x) = 0
       THEN /\ x' = Add64(x, 1)
            /\ call' = [call EXCEPT !.xs = @ + 1]
            /\ UNCHANGED <<pc, ndivs, di, divs, gd>>
       ELSE LET r == get_divisors_p2x2(n, x, divs)
            IN  /\ divs' = r.buf
                /\ ndivs' = r.count
                /\ gd' = [x |-> x, count |-> r.count, written |-> r.written,
                          oob |-> r.oob, nfactors |-> r.nfactors,
                          nall |-> r.nall, reads |-> {}]
                /\ di' = 0
                /\ pc' = "divloop"
                /\ call' = Access([call EXCEPT !.xs = @ + 1])
                /\ UNCHANGED x
    /\ UNCHANGED <<primes, out, bi, n, x_max, log>>

\* the window is exhausted
XDone ==
    /\ pc = "xloop" /\ ~(x <= x_max)
    /\ Return(ZeroSol, ReleaseOnExhaust(call))
    /\ UNCHANGED divs

\* u64 d1 = divs[i] is rejected
DivSkip ==
    /\ pc = "divloop" /\ DivLoopCond(di, ndivs)
    /\ Candidate(n, x, BufRead(divs, di)).kind = "skip"
    /\ di' = di + 1
    /\ gd' = [gd EXCEPT !.reads = @ \cup {di}]
    /\ call' = Access(call)
    /\ UNCHANGED <<primes, out, bi, pc, n, x, x_max, ndivs, divs, log>>

\* D / d1 with d1 = 0: the process is stopped by the division trap
DivTrap ==
    /\ pc = "divloop" /\ DivLoopCond(di, ndivs)
    /\ Candidate(n, x, BufRead(divs, di)).kind = "trap"
    /\ pc' = "trap"
    /\ gd' = [gd EXCEPT !.reads = @ \cup {di}]
    /\ call' = Access(call)
    /\ UNCHANGED <<primes, out, bi, n, x, x_max, ndivs, di, divs, log>>

\* the candidate passes verify128: set_sol, free, return
DivAccept ==
    /\ pc = "divloop" /\ DivLoopCond(di, ndivs)
    /\ Candidate(n, x, BufRead(divs, di)).kind = "accept"
    /\ Return(Candidate(n, x, BufRead(divs, di)).sol,
              ReleaseOnAccept(Access(call)))
    /\ UNCHANGED divs

\* the divisors of x are exhausted: x++
DivEnd ==
    /\ pc = "divloop" /\ ~DivLoopCond(di, ndivs)
    /\ x' = Add64(x, 1)
    /\ pc' = "xloop"
    /\ UNCHANGED <<primes, out, bi, n, x_max, ndivs, di, divs, gd, call, log>>

\* solve_batch's loop ends
BatchDone ==
    /\ pc = "batch" /\ ~(bi < Len(primes))
    /\ pc' = "done"
    /\ UNCHANGED <<primes, out, bi, n, x, x_max, ndivs, di, divs, gd, call, log>>

Next ==
    \/ CallClosedForm
    \/ CallAllocFail
    \/ CallSearch
    \/ XIter
    \/ XDone
    \/ DivSkip
    \/ DivTrap
    \/ DivAccept
    \/ DivEnd
    \/ BatchDone

Spec == Init /\ [][Next]_vars

(* ====================== properties of the program ===================== *)

\* the u128 held in a (hi, lo) pair of output words
Val128(hi, lo) == hi * U64 + lo
ValA(s) == Val128(s.a_hi, s.a_lo)
ValB(s) == Val128(s.b_hi, s.b_lo)
ValC(s) == Val128(s.c_hi, s.c_lo)

\* Equality of 4abc and n(ab + bc + ac) as integers.  Both sides are below
\* 4 * U128^3, which is below the product of the five pairwise coprime
\* moduli (a number of 74 bits), so agreement modulo each of them is
\* equality of the integers.
ExactModuli == {32749, 32719, 32717, 32713, 32707}
PM(u, v, p) == ((u % p) * (v % p)) % p
ExactIdentity(nn, a, b, c) ==
    \A p \in ExactModuli :
        PM(4, PM(a, PM(b, c, p), p), p)
          = PM(nn, (PM(a, b, p) + PM(b, c, p) + PM(a, c, p)) % p, p)

\* (m * m) % d = 0 for the integer m
DividesSq(d, m) == d >= 1 /\ MulMod(m % d, m % d, d) = 0

\* the number of divisors of m * m, from the factorization of m >= 1
RECURSIVE TauSq(_, _)
TauSq(m, d) ==
    IF m = 1 THEN 1
    ELSE IF d * d > m THEN 3
    ELSE IF m % d = 0
         THEN LET r == StripPower(m, d, 0)
              IN  (2 * r.exp + 1) * TauSq(r.temp, d + 1)
    ELSE TauSq(m, d + 1)

\* get_divisors_p2x2 run on a block of zeros, and what the loop over the
\* divisors does with its i-th entry
FreshDivs(nn, xx) == get_divisors_p2x2(nn, xx, [k \in DivIndex |-> 0])
Outcome(nn, xx, i) == Candidate(nn, xx, FreshDivs(nn, xx).buf[i])
Rejected(nn, xx) ==
    LET r == FreshDivs(nn, xx)
    IN  \A i \in 0 .. (r.count - 1) :
            Candidate(nn, xx, r.buf[i]).kind = "skip"

\* floor((n + 3) / 4) and the window of the integers, without wrap-around
TrueXMin(nn) == (nn + 3) \div 4
TrueWindow(nn) == TrueXMin(nn) .. (TrueXMin(nn) + Window)

\* solve_erdos_straus(nn) as a function of nn alone, for a call whose
\* allocation succeeds: the closed forms, else the first accepted pair of
\* the window; Trapped stands for a call stopped by a division by zero
Trapped ==
    [a_lo |-> -2, a_hi |-> -2, b_lo |-> -2, b_hi |-> -2,
     c_lo |-> -2, c_hi |-> -2, found |-> -2]

\* the first entry of r, from index i on, that is not rejected
RECURSIVE ScanFrom(_, _, _, _)
ScanFrom(nn, xx, r, i) ==
    IF i >= r.count THEN [kind |-> "skip"]
    ELSE LET c == Candidate(nn, xx, r.buf[i])
         IN  IF c.kind = "skip" THEN ScanFrom(nn, xx, r, i + 1) ELSE c

ScanRef(nn, xx) == ScanFrom(nn, xx, FreshDivs(nn, xx), 0)

RECURSIVE SearchRef(_, _)
SearchRef(nn, xx) ==
    IF xx > XMax(nn) THEN ZeroSol
    ELSE IF AOf(nn, xx) = 0 THEN SearchRef(nn, xx + 1)
    ELSE LET r == ScanRef(nn, xx)
         IN  IF r.kind = "accept" THEN r.sol
             ELSE IF r.kind = "trap" THEN Trapped
             ELSE SearchRef(nn, xx + 1)

SolveRef(nn) ==
    IF ClosedForm(nn).kind = "ret" THEN ClosedForm(nn).sol
    ELSE SearchRef(nn, XMin(nn))

SolveTable == [v \in U64Values |-> SolveRef(v)]

\* C1: every result with found = 1 holds 0 < a <= b <= c with
\* 4abc = n(ab + bc + ac) as integers.
C1_FoundIsExactSolution ==
    \A j \in 1 .. bi :
        out[j].found = 1 =>
            LET a == ValA(out[j])
                b == ValB(out[j])
                c == ValC(out[j])
            IN  /\ 0 < a /\ a <= b /\ b <= c
                /\ ExactIdentity(primes[j], a, b, c)

\* the closed-form triple of an even n or of n = 3 (mod 4), as integers
ClosedTriple(nn) ==
    IF nn = 2 THEN <<1, 2, 2>>
    ELSE IF nn = 3 THEN <<1, 4, 12>>
    ELSE IF nn = 4 THEN <<2, 4, 4>>
    ELSE IF nn = 5 THEN <<2, 4, 20>>
    ELSE IF nn % 2 = 0 THEN <<nn \div 2, nn, nn>>
    ELSE <<(nn + 1) \div 4, 2 * nn * ((nn + 1) \div 4),
           2 * nn * ((nn + 1) \div 4)>>

\* C2: for n even with n >= 2, for n = 3 (mod 4) with n >= 3 (and for
\* n = 5) the call returns found = 1 without searching, with the
\* closed-form triple computed over the integers.
C2_ClosedFormTriples ==
    \A j \in 1 .. bi :
        LET nn == primes[j]
        IN  ((nn >= 2 /\ nn % 2 = 0) \/ (nn >= 3 /\ nn % 4 = 3) \/ nn = 5) =>
                /\ out[j].found = 1
                /\ log[j].heap = NoCall
                /\ <<ValA(out[j]), ValB(out[j]), ValC(out[j])>>
                     = ClosedTriple(nn)

\* C3, as claimed: entry i of the output is the result of the call on
\* primes[i], in input order, and equal inputs have equal outputs.
C3_SameInputSameOutput ==
    /\ \A j \in 1 .. Len(primes) : (j <= bi) = (out[j] # Unwritten)
    /\ \A j, k \in 1 .. bi : primes[j] = primes[k] => out[j] = out[k]

\* C3, amended: entry i of the output is, in input order, the result the
\* i-th call returned, which is a function of primes[i] alone when the
\* call's allocation succeeded and the zero result when it failed; entries
\* past the loop index are not assigned.
C3_BatchMatchesSolve ==
    \A j \in 1 .. Len(primes) :
        IF j <= bi
        THEN /\ out[j] = log[j].sol
             /\ log[j].n = primes[j]
             /\ out[j] = IF log[j].heap.failed THEN ZeroSol
                         ELSE SolveTable[primes[j]]
        ELSE out[j] = Unwritten

\* two positions with the same searched n, both found
C3_Witness ==
    \E j, k \in 1 .. bi :
        /\ j < k /\ primes[j] = primes[k]
        /\ log[j].heap.allocs = 1 /\ log[k].heap.allocs = 1
        /\ out[j].found = 1 /\ out[k] = out[j]

\* C4: the search visits the x of [(n+3)/4, (n+3)/4 + Window] in
\* increasing order and the divisors of each x in construction order, it
\* returns at the first pair that passes, so that a is the smallest such
\* x, and it returns found = 0 only after every pair was rejected.
C4_FirstMatchInWindow ==
    /\ pc \in {"xloop", "divloop"} =>
          /\ x \in TrueXMin(n) .. (TrueXMin(n) + Window + 1)
          /\ \A xx \in TrueXMin(n) .. (x - 1) : Rejected(n, xx)
          /\ pc = "divloop" =>
                /\ x \in TrueWindow(n)
                /\ \A i \in 0 .. (di - 1) : Outcome(n, x, i).kind = "skip"
    /\ \A j \in 1 .. Len(log) :
          log[j].heap.allocs = 1 =>
              IF log[j].sol.found = 1
              THEN \E xx \in TrueWindow(log[j].n) :
                      /\ \A x2 \in TrueXMin(log[j].n) .. (xx - 1) :
                            Rejected(log[j].n, x2)
                      /\ ScanRef(log[j].n, xx).kind = "accept"
                      /\ ScanRef(log[j].n, xx).sol = log[j].sol
                      /\ ValA(log[j].sol) = xx
              ELSE \A xx \in TrueWindow(log[j].n) : Rejected(log[j].n, xx)

\* C5: for n <= 1 the call returns found = 0 with all six words zero,
\* without acquiring a buffer and without entering the search.
C5_DegenerateNotFound ==
    \A j \in 1 .. bi :
        primes[j] <= 1 => (out[j] = ZeroSol /\ log[j].heap = NoCall)

\* a call on n = 1 has returned, after a call that searched
C5_Witness ==
    \E j \in 2 .. bi :
        primes[j] = 1 /\ out[j].found = 0 /\ log[j - 1].heap.allocs = 1

\* C6: for x >= 1 and n >= 2 such that (n x)^2 has at most MAX_DIVS
\* divisors, the buffer holds exactly the divisors of (n x)^2, each once.
C6_DivisorSetExact ==
    (pc = "divloop" /\ x >= 1 /\ n >= 2 /\ TauSq(n * x, 2) <= MAX_DIVS) =>
        /\ ndivs = TauSq(n * x, 2)
        /\ \A i \in 0 .. (ndivs - 1) : DividesSq(divs[i], n * x)
        /\ \A i, k \in 0 .. (ndivs - 1) : i # k => divs[i] # divs[k]

\* C7: an entry d1 that reaches d2 = D / d1 is nonzero and divides
\* (n x)^2 over the integers.
C7_UsedDivisorDividesD ==
    (/\ pc = "divloop" /\ DivLoopCond(di, ndivs)
     /\ ~(divs[di] > NxOf(n, x))
     /\ divs[di] % (AOf(n, x) % U64) = TargetMod(n, x)) =>
        (divs[di] # 0 /\ DividesSq(divs[di], n * x))

\* C8: in the search x_min is floor((n + 3) / 4) and, for every x
\* visited, A is the integer 4x - n, between 1 and 4 * Window + 3, and
\* unchanged by the cast to u64.
C8_WindowArithmeticExact ==
    pc \in {"xloop", "divloop"} =>
        /\ XMin(n) = TrueXMin(n)
        /\ x_max = TrueXMin(n) + Window
        /\ x <= x_max =>
              /\ 4 * x - n >= 1 /\ 4 * x - n <= 4 * Window + 3
              /\ AOf(n, x) = 4 * x - n
              /\ AOf(n, x) % U64 = AOf(n, x)

\* the heap record of a call that has returned: at most one block, every
\* block released, no release or access of a block not held, and no
\* iteration of the search after a failed allocation
HeapClean(h) ==
    /\ h.allocs <= 1 /\ h.frees = h.allocs
    /\ ~h.held /\ ~h.fault
    /\ h.failed => (h.allocs = 0 /\ h.xs = 0)

\* C9: a call acquires the buffer at most once; when it returns no block
\* is held, none was released twice or used while not held; and a call
\* whose allocation fails returns found = 0 without searching.
C9_BufferLifecycle ==
    /\ call.allocs <= 1 /\ call.frees = 0 /\ ~call.fault
    /\ call.held = (pc \in {"xloop", "divloop", "trap"})
    /\ \A j \in 1 .. Len(log) :
          /\ HeapClean(log[j].heap)
          /\ log[j].heap.failed => log[j].sol = ZeroSol
          /\ log[j].heap.xs > 0 => log[j].heap.allocs = 1

\* the three exits of a searching call and the failed allocation have
\* all been taken: early success, exhausted window, malloc returning NULL
C9_Witness ==
    /\ \E j \in 1 .. Len(log) :
          log[j].heap.allocs = 1 /\ log[j].sol.found = 1
    /\ \E j \in 1 .. Len(log) :
          log[j].heap.allocs = 1 /\ log[j].sol.found = 0
             /\ log[j].heap.xs = Window + 1

\* C10: get_divisors_p2x2 returns a count in 1 .. MAX_DIVS and writes
\* exactly divs[0 .. count-1]; the factor arrays are indexed below
\* FACTOR_CAP; the search reads only indexes below the count returned for
\* the same x.
C10_BufferBounds ==
    pc \in {"divloop", "trap"} =>
        /\ gd.x = x /\ gd.count = ndivs
        /\ ndivs >= 1 /\ ndivs <= MAX_DIVS
        /\ gd.written = 0 .. (ndivs - 1)
        /\ ~gd.oob
        /\ gd.nfactors <= FACTOR_CAP - 1 /\ gd.nall <= FACTOR_CAP
        /\ gd.reads \subseteq gd.written
        /\ di <= ndivs
        /\ LET r == FreshDivs(n, x)
           IN  \A i \in 0 .. (ndivs - 1) : divs[i] = r.buf[i]

\* the cap was reached and entries have been read
C10_Witness ==
    pc = "divloop" /\ ndivs = MAX_DIVS /\ gd.reads # {} /\ di = ndivs

====
